---- MODULE Spec2Model ----
(***************************************************************************)
(* A model of the notes_search pipeline:                                   *)
(*   services/x_api.py  fetch_eligible_posts, hydrate_public_metrics_verbose*)
(*                      and the process-wide RATE_LIMIT_STATE              *)
(*   services/llm.py    filter_posts_with_llm, score_posts_with_llm        *)
(*   app.py             _do_analyze (final score and ranking)              *)
(* Each function is a sequential procedure; one action is one step of it   *)
(* between two remote calls.  Remote answers are the nondeterministic      *)
(* inputs of the actions.                                                  *)
(***************************************************************************)
EXTENDS Integers, Sequences, FiniteSets, TLC

(***************************************************************************)
(* Bounds of the model (not program constants).                            *)
(***************************************************************************)
\* most pages a caller asks for (the `pages` argument)
MaxPages == 2
\* most 429 answers of the search endpoint within one call (the code's loop is unbounded)
MaxRateLimited == 1
\* the clock runs from 0 to MaxNow
MaxNow == 1

\* most posts handed to filter_posts_with_llm or score_posts_with_llm
MaxPosts == 13
\* most posts in ss.raw_posts when _do_analyze runs
MaxRaw == 3
\* posts a fetch of the session returns
MaxFetched == 2
\* clicks of a session
MaxClicks == 4
\* latest clock reading and reset time of a call of should_skip_metrics_fetch
SkipClock == 3

(***************************************************************************)
(* Program constants.                                                      *)
(***************************************************************************)
\* BATCH_SIZE = 12
BATCH_SIZE == 12
\* looks_claimy: len(t) < 30
MinClaimLen == 30
\* _chunk_ids(ids, 100)
LookupChunk == 100
\* max_retries = 3
MaxRetries == 3
\* if retry_after > 300
TooLongWait == 300
\* r.headers.get('retry-after', 60) and wait_time = 60
DefaultRetryAfter == 60
\* RATE_LIMIT_STATE["remaining"] <= 5
LowWater == 5

\* a key that a dict does not hold (counts and times are >= 0 when present)
Absent == -1
\* Python's None as the value of a RATE_LIMIT_STATE entry
None == -1

(***************************************************************************)
(* Values the environment can supply.                                      *)
(***************************************************************************)
\* a credential: empty, or a secret (any non-empty string is truthy)
CredValues == {"", "k"}
\* the "data" of a 200 answer of the search endpoint: n posts (max_results is at
\* least 10 in the UI, the server may send fewer); fl says what they carry:
\* nothing, public_metrics on all, on the first only, no id, or the id 1 once
\* more; m is the value of the counts in public_metrics
PageChoices ==
    { [n |-> 0,  fl |-> "plain", m |-> 0],
      [n |-> 60, fl |-> "plain", m |-> 0],
      [n |-> 1,  fl |-> "again", m |-> 0],
      [n |-> 1,  fl |-> "noid",  m |-> 0],
      [n |-> 2,  fl |-> "first", m |-> 7] }
\* the arguments <<pages, fetch_metrics, compute_reach>> of a call; compute_reach
\* is read only when fetch_metrics is set, and app.py never sets it
ArgChoices ==
    { <<pg, fm, FALSE>> : pg \in 1..MaxPages, fm \in BOOLEAN } \cup { <<1, TRUE, TRUE>> }
\* x-rate-limit-remaining / x-rate-limit-reset of a response (Absent: header missing)
HeaderChoices ==
    { [remaining |-> Absent, reset |-> Absent],
      [remaining |-> 3,      reset |-> MaxNow],
      [remaining |-> 100,    reset |-> Absent] }
\* a retry-after header that int() rejects (an HTTP date, say)
NotANumber == -2
\* retry-after of a 429 answer: missing, the longest wait taken, too long, or not a number
RetryAfterChoices == {Absent, 300, 301, NotANumber}
\* bodies of a 200 answer of the lookup endpoint: "data" covers no id, all ids
\* or the first id of the batch, every count is m, and includes.users gives the
\* authors' followers_count or is missing
LookupBodies ==
    { [data |-> "none",  m |-> 0, followers |-> Absent],
      [data |-> "all",   m |-> 7, followers |-> 500],
      [data |-> "first", m |-> 0, followers |-> Absent] }

VARIABLES
    \* ---- fetch_eligible_posts: arguments
    creds, pages, fetch_metrics, compute_reach,
    \* ---- fetch_eligible_posts: locals and position
    fpc, all_posts, pagination_token, page_count,
    \* ---- hydrate_public_metrics_verbose: locals
    ids, batch_no, retry_count, hydrated_any, last_error, batches_processed,
    \* ---- module state and clock
    RATE_LIMIT_STATE, now,
    \* ---- observation: the posts the search endpoint sent with status 200, the
    \* requests sent to it, the requests sent to the lookup endpoint for the
    \* current batch, the 429 answers of the search endpoint, and
    \* RATE_LIMIT_STATE as it was when the call began
    served, search_requests, batch_requests, rate_limited, rl_at_call,
    \* ---- observation: what ended the page loop
    stopped_by,
    \* ---- observation: the latest request on the wire, its answer and the
    \* sleeps the code made on that answer
    wire,
    \* ---- should_skip_metrics_fetch called on its own: position, and the
    \* boolean of the pair it returned
    skip_pc, skip,
    \* ---- the post objects the language-model stages work on, by position, and
    \* the anthropic_api_key argument
    store, anthropic_api_key,
    \* ---- filter_posts_with_llm: argument (positions in store), position in
    \* the function, posts consumed, kept (positions in store)
    f_posts, f_pc, f_pos, kept,
    \* ---- observation: the verdict rmap held for each post when it was examined
    f_verdict,
    \* ---- observation: what the answer to each post's batch was (AnswerClass)
    f_answer,
    \* ---- score_posts_with_llm: argument (positions in store), position in the
    \* function, posts consumed, scored (positions in store)
    s_posts, s_pc, s_pos, scored,
    \* ---- observation: the two score values rmap held for each post
    s_remote,
    \* ---- app.py: session state (lists are positions in store) and the
    \* position in _do_analyze
    raw_posts, filtered_posts, ranked_posts, did_analyze,
    enable_high_reach_filter, min_retweets_threshold, a_pc, did_fetch,
    \* ---- observation: the clicks made in the session so far
    clicks,
    \* ---- save_posts_to_csv: argument (positions in store), position in the
    \* function, and the file at the destination path
    x_posts, x_pc, csv_file

fetchVars == << creds, pages, fetch_metrics, compute_reach, fpc, all_posts,
                pagination_token, page_count, ids, batch_no, retry_count, hydrated_any,
                last_error, batches_processed, RATE_LIMIT_STATE, now, served,
                search_requests, batch_requests, rate_limited, rl_at_call, stopped_by,
                wire, skip_pc, skip >>

filterVars == << f_posts, f_pc, f_pos, kept, f_verdict, f_answer >>

scoreVars == << s_posts, s_pc, s_pos, scored, s_remote >>

appVars == << raw_posts, filtered_posts, ranked_posts, did_analyze,
             enable_high_reach_filter, min_retweets_threshold, a_pc, did_fetch,
             clicks >>

exportVars == << x_posts, x_pc, csv_file >>

llmVars == << store, anthropic_api_key, filterVars, scoreVars, appVars, exportVars >>

vars == << fetchVars, llmVars >>

\* what the steps of each function leave alone
outsideFetch == << llmVars, skip_pc, skip >>
outsideFilter == << fetchVars, scoreVars, appVars, exportVars >>
outsideScore == << fetchVars, filterVars, appVars, exportVars >>
outsideAnalyze == << fetchVars, exportVars, did_fetch, clicks >>
outsideExport == << fetchVars, store, anthropic_api_key, filterVars, scoreVars, appVars >>

(***************************************************************************)
(* Pure helpers of services/x_api.py                                       *)
(***************************************************************************)
Min(a, b) == IF a <= b THEN a ELSE b

\* a post as the search endpoint sends it; pm is the value of every count in
\* its public_metrics object, or Absent when it has none; id 0: no id
ServerPost(id, pm) ==
    [ id |-> id, public_metrics |-> pm,
      tweet_retweet_count |-> Absent, tweet_like_count |-> Absent,
      tweet_reply_count |-> Absent, tweet_quote_count |-> Absent,
      author_followers_count |-> Absent,
      metrics_hydrated |-> "unset", metrics_reason |-> "unset",
      reach_score |-> Absent ]

\* the page the server sends: n posts with consecutive fresh ids (id 0: the
\* post has no "id" key)
ServerPage(first, n, flavour, m) ==
    [ k \in 1..n |->
        ServerPost(IF flavour = "noid" THEN 0
                   ELSE IF flavour = "again" THEN 1
                   ELSE first + k - 1,
                   IF flavour = "metrics" \/ (flavour = "first" /\ k = 1) THEN m ELSE Absent) ]

\* _oauth as it would be if it looked at the consumer key and secret only
OauthChecksKeyPair(c) == c[1] = "" \/ c[2] = ""

\* _oauth: raises unless all four credentials are truthy
OauthRaises(c) == \E i \in 1..4 : c[i] = ""

\* check_rate_limit_headers
check_rate_limit_headers(state, h, t) ==
    [ remaining    |-> IF h.remaining # Absent THEN h.remaining ELSE state.remaining,
      last_checked |-> IF h.remaining # Absent THEN t ELSE state.last_checked,
      reset_time   |-> IF h.reset # Absent THEN h.reset ELSE state.reset_time ]

\* should_skip_metrics_fetch as it would be if it never advised to skip
should_skip_never(state, t) == FALSE

\* should_skip_metrics_fetch as it would be with "< 5" at line 53
should_skip_below_low_water(state, t) ==
    /\ state.remaining # None
    /\ state.remaining < LowWater
    /\ state.reset_time # None
    /\ t < state.reset_time

\* should_skip_metrics_fetch (the boolean of the returned pair)
should_skip_metrics_fetch(state, t) ==
    /\ state.remaining # None
    /\ state.remaining <= LowWater
    /\ state.reset_time # None
    /\ t < state.reset_time

\* lines 122-129: metrics that came with the page
InlineMetrics(post) ==
    IF post.public_metrics # Absent
    THEN [ post EXCEPT !.tweet_retweet_count = post.public_metrics,
                       !.tweet_like_count    = post.public_metrics,
                       !.tweet_reply_count   = post.public_metrics,
                       !.tweet_quote_count   = post.public_metrics,
                       !.metrics_hydrated    = "true" ]
    ELSE post

\* line 132 as it would be with `all_posts = batch`
ReplacePosts(acc, batch) == batch

\* line 132: all_posts.extend(batch)
ExtendPosts(acc, batch) == acc \o batch

\* p.get("__metrics_hydrated__") is truthy
IsHydrated(p) == p.metrics_hydrated = "true"

\* needs_metrics (line 145)
needs_metrics_any_post(fm, posts) == fm /\ posts # << >>

needs_metrics(fm, posts) ==
    /\ fm
    /\ Len(posts) > 0
    /\ ~ \E i \in 1..Len(posts) : IsHydrated(posts[i])

\* keys of id_map in insertion order: the truthy ids, each once, at the place
\* of its first occurrence
IdsOf(posts) ==
    LET first(i) == /\ posts[i].id # 0
                    /\ \A j \in 1..(i - 1) : posts[j].id # posts[i].id
        firsts == SelectSeq([ i \in 1..Len(posts) |-> i ], first)
    IN  [ k \in 1..Len(firsts) |-> posts[firsts[k]].id ]

\* _chunk_ids: the k-th chunk of n ids
ChunkCount(idseq, n) == (Len(idseq) + n - 1) \div n
_chunk_ids(idseq, n, k) == SubSeq(idseq, (k - 1) * n + 1, Min(k * n, Len(idseq)))

\* id_map maps an id to the last post that carries it: the positions of the
\* posts that id_map reaches for the ids of `covered`
IdMapTargets(posts, covered) ==
    { i \in 1..Len(posts) :
        /\ posts[i].id \in covered
        /\ \A j \in (i + 1)..Len(posts) : posts[j].id # posts[i].id }

\* compute_reach_score in tenths: round(min(10, log1p(raw)/log(1000)*10), 1)
\* for raw = likes + 2*rts + 1.5*replies + 2*quotes + 0.002*followers
Raw2(p) ==
    LET v(x) == IF x = Absent THEN 0 ELSE x
    IN  2 * v(p.tweet_like_count) + 4 * v(p.tweet_retweet_count)
        + 3 * v(p.tweet_reply_count) + 4 * v(p.tweet_quote_count)
        + (4 * v(p.author_followers_count)) \div 1000

compute_reach_score(p) ==
    LET r == Raw2(p)
    IN  IF r <= 0 THEN 0
        ELSE IF r <= 2 THEN 10
        ELSE IF r < 100 THEN 56
        ELSE 100

\* lines 168-173
ComputeReach(posts, cr) ==
    IF cr
    THEN [ i \in 1..Len(posts) |->
            [ posts[i] EXCEPT !.reach_score =
                IF IsHydrated(posts[i]) THEN compute_reach_score(posts[i]) ELSE 0 ] ]
    ELSE posts

\* lines 151-153: the skip branch marks all_posts[:1]
MarkSkipped(posts, reason) ==
    [ i \in 1..Len(posts) |->
        IF i = 1
        THEN [ posts[i] EXCEPT !.metrics_hydrated = "false", !.metrics_reason = reason ]
        ELSE posts[i] ]

\* lines 162-166: after the lookup, all_posts[:1] gets the flag and the reason
MarkLookup(posts, hydrated, reason) ==
    [ i \in 1..Len(posts) |->
        IF i = 1
        THEN [ posts[i] EXCEPT
                 !.metrics_hydrated = IF hydrated THEN "true" ELSE "false",
                 !.metrics_reason = IF ~hydrated /\ reason # "" THEN reason ELSE @ ]
        ELSE posts[i] ]

\* lines 264-290: a 200 answer of the lookup endpoint applied to the posts
ApplyLookup(posts, batch, body) ==
    LET covered == IF body.data = "all" THEN { batch[k] : k \in 1..Len(batch) }
                   ELSE IF body.data = "first" THEN { batch[1] }
                   ELSE {}
        target == IdMapTargets(posts, covered)
    IN  [ i \in 1..Len(posts) |->
            IF i \in target
            THEN [ posts[i] EXCEPT
                     !.tweet_like_count    = body.m,
                     !.tweet_retweet_count = body.m,
                     !.tweet_reply_count   = body.m,
                     !.tweet_quote_count   = body.m,
                     !.author_followers_count = IF body.followers # Absent THEN body.followers ELSE @ ]
            ELSE posts[i] ]

(***************************************************************************)
(* fetch_eligible_posts                                                    *)
(***************************************************************************)
NoRateInfo == [ remaining |-> None, reset_time |-> None, last_checked |-> None ]

\* nothing has been sent yet. endpoint and status are those of the latest
\* request and its answer; retry_after is the header of a 429 answer; body is
\* what a lookup answer with an error status holds; slept are the time.sleep
\* calls made on the answer; ok_pages counts the 200 answers of the search
\* endpoint that held posts. While the page loop runs, cursor is the
\* pagination_token parameter of the latest page request (0: none) and
\* next_token the meta.next_token of the latest 200 answer (0: none); a lookup
\* request has neither
NoWire ==
    [ endpoint |-> "none", cursor |-> 0, status |-> "none", retry_after |-> Absent,
      body |-> "none", slept |-> << >>, next_token |-> 0, ok_pages |-> 0 ]

\* lines 92-93: the cursor parameter of a page request
NoCursor(token) == 0

RequestCursor(token) == token

\* lines 101-103: the wait on a 429 of the search endpoint
SearchWaitAlwaysDefault(ra) == DefaultRetryAfter

SearchWait(ra) == IF ra = Absent THEN DefaultRetryAfter ELSE ra

\* line 134: if page_count >= int(pages): break
PageLimitPassed(pc, pg) == pc > pg

PageLimitReached(pc, pg) == pc >= pg

\* line 234: while retry_count < max_retries
AttemptsLeftOrEqual(rc) == rc <= MaxRetries

AttemptsLeft(rc) == rc < MaxRetries

\* line 247: if retry_after > 300
TooLongFrom300(retry_after) == retry_after >= TooLongWait

TooLong(retry_after) == retry_after > TooLongWait

\* lines 295-303: the sleeps of the exception handler after the rc-th failed
\* attempt: 2 ** retry_count while attempts are left, else the pause between batches
BackoffSleeps(rc) == IF AttemptsLeft(rc) THEN << 2 ^ rc >> ELSE << 1 >>

\* a call of fetch_eligible_posts with fresh locals; RATE_LIMIT_STATE is the module's
CallState(c, pg, fm, cr) ==
    /\ creds = c
    /\ pages = pg
    /\ fetch_metrics = fm
    /\ compute_reach = cr
    /\ fpc = "call"
    /\ all_posts = << >>
    /\ pagination_token = 0
    /\ page_count = 0
    /\ ids = << >>
    /\ batch_no = 0
    /\ retry_count = 0
    /\ hydrated_any = FALSE
    /\ last_error = ""
    /\ batches_processed = 0
    /\ served = << >>
    /\ search_requests = 0
    /\ batch_requests = 0
    /\ rate_limited = 0
    /\ stopped_by = "running"
    /\ wire = NoWire

\* RATE_LIMIT_STATE is process-wide: a call finds what the module's import or
\* an earlier call left in it
RateStatesAtCall ==
    { NoRateInfo, [ remaining |-> 3, reset_time |-> MaxNow, last_checked |-> 0 ] }

\* should_skip_metrics_fetch is not being called on its own
IdleSkip ==
    /\ skip_pc = "idle"
    /\ skip = FALSE

InitFetch ==
    /\ IdleSkip
    /\ \E c \in [1..4 -> CredValues], a \in ArgChoices : CallState(c, a[1], a[2], a[3])
    /\ RATE_LIMIT_STATE \in RateStatesAtCall
    /\ rl_at_call = RATE_LIMIT_STATE
    /\ now = 0

\* the clock moves while a request or a sleep is under way
Tick(d) == now' = Min(now + d, MaxNow)

hydrateLocals == << ids, batch_no, retry_count, hydrated_any, last_error, batches_processed >>
callArgs == << creds, pages, fetch_metrics, compute_reach, rl_at_call >>
afterLoop == << callArgs, stopped_by >>

\* line 76: sess = _oauth(...)
CallOauth ==
    /\ fpc = "call"
    /\ fpc' = IF OauthRaises(creds) THEN "raised" ELSE "search"
    /\ UNCHANGED << afterLoop, all_posts, pagination_token, page_count, hydrateLocals,
                    RATE_LIMIT_STATE, now, served, search_requests, batch_requests,
                    rate_limited, wire >>
    /\ UNCHANGED outsideFetch

\* lines 96-106: the search endpoint answers 429
SearchRateLimited ==
    /\ fpc = "search"
    /\ rate_limited < MaxRateLimited
    /\ \E h \in HeaderChoices, ra \in RetryAfterChoices, d \in 0..Min(1, MaxNow - now) :
          /\ RATE_LIMIT_STATE' = check_rate_limit_headers(RATE_LIMIT_STATE, h, now)
          /\ Tick(d)
          \* int(resp.headers['retry-after']) raises inside the try: break
          /\ fpc' = IF ra = NotANumber THEN "paged" ELSE "search"
          /\ stopped_by' = IF ra = NotANumber THEN "exception" ELSE stopped_by
          /\ wire' = [ wire EXCEPT !.endpoint = "search",
                                   !.cursor = RequestCursor(pagination_token),
                                   !.status = "429", !.retry_after = ra, !.body = "none",
                                   !.slept = IF ra = NotANumber THEN << >>
                                             ELSE << SearchWait(ra) >> ]
    /\ search_requests' = search_requests + 1
    /\ rate_limited' = rate_limited + 1
    /\ UNCHANGED << callArgs, all_posts, pagination_token, page_count, hydrateLocals,
                    served, batch_requests >>
    /\ UNCHANGED outsideFetch

\* lines 96-106 once more: a 429 answer after the MaxRateLimited answers the
\* observations count; the code does the same, for as long as they come
SearchRateLimitedUncounted ==
    /\ fpc = "search"
    /\ rate_limited >= MaxRateLimited
    /\ \E h \in HeaderChoices, ra \in RetryAfterChoices, d \in 0..Min(1, MaxNow - now) :
          /\ RATE_LIMIT_STATE' = check_rate_limit_headers(RATE_LIMIT_STATE, h, now)
          /\ Tick(d)
          /\ fpc' = IF ra = NotANumber THEN "paged" ELSE "search"
          /\ stopped_by' = IF ra = NotANumber THEN "exception" ELSE stopped_by
          /\ wire' = [ wire EXCEPT !.endpoint = "search",
                                   !.cursor = RequestCursor(pagination_token),
                                   !.status = "429", !.retry_after = ra, !.body = "none",
                                   !.slept = IF ra = NotANumber THEN << >>
                                             ELSE << SearchWait(ra) >> ]
    /\ UNCHANGED << search_requests, rate_limited >>
    /\ UNCHANGED << callArgs, all_posts, pagination_token, page_count, hydrateLocals,
                    served, batch_requests >>
    /\ UNCHANGED outsideFetch

\* lines 108-110: a status other than 200 and 429
SearchHttpError ==
    /\ fpc = "search"
    /\ \E h \in HeaderChoices, d \in 0..Min(1, MaxNow - now) :
          /\ RATE_LIMIT_STATE' = check_rate_limit_headers(RATE_LIMIT_STATE, h, now)
          /\ Tick(d)
    /\ fpc' = "paged"
    /\ stopped_by' = "status"
    /\ wire' = [ wire EXCEPT !.endpoint = "search",
                             !.cursor = RequestCursor(pagination_token),
                             !.status = "error", !.retry_after = Absent, !.body = "none",
                             !.slept = << >> ]
    /\ search_requests' = search_requests + 1
    /\ UNCHANGED << callArgs, all_posts, pagination_token, page_count, hydrateLocals,
                    served, batch_requests, rate_limited >>
    /\ UNCHANGED outsideFetch

\* lines 113-115: sess.get raises (no response), or resp.json() raises on a 200
SearchException ==
    /\ fpc = "search"
    /\ \E transport \in BOOLEAN, h \in HeaderChoices, d \in 0..Min(1, MaxNow - now) :
          /\ RATE_LIMIT_STATE' = IF transport THEN RATE_LIMIT_STATE
                                 ELSE check_rate_limit_headers(RATE_LIMIT_STATE, h, now)
          /\ Tick(d)
    /\ fpc' = "paged"
    /\ stopped_by' = "exception"
    /\ wire' = [ wire EXCEPT !.endpoint = "search",
                             !.cursor = RequestCursor(pagination_token),
                             !.status = "exception", !.retry_after = Absent,
                             !.body = "none", !.slept = << >> ]
    /\ search_requests' = search_requests + 1
    /\ UNCHANGED << callArgs, all_posts, pagination_token, page_count, hydrateLocals,
                    served, batch_requests, rate_limited >>
    /\ UNCHANGED outsideFetch

\* lines 112-142: a 200 answer with a JSON object
SearchPage ==
    /\ fpc = "search"
    /\ \E h \in HeaderChoices, pg \in PageChoices, tok \in BOOLEAN, d \in 0..Min(1, MaxNow - now) :
          LET n == pg.n
              batch == ServerPage(Len(served) + 1, n, pg.fl, pg.m)
              next_token == IF tok THEN page_count + 1 ELSE 0
          IN  /\ RATE_LIMIT_STATE' = check_rate_limit_headers(RATE_LIMIT_STATE, h, now)
              /\ Tick(d)
              /\ served' = served \o batch
              /\ wire' = [ wire EXCEPT
                             !.endpoint = "search",
                             !.cursor = RequestCursor(pagination_token),
                             !.status = IF n = 0 THEN "200 empty" ELSE "200",
                             !.retry_after = Absent, !.body = "none",
                             \* line 142: time.sleep(1) before the next page
                             !.slept = IF n > 0 /\ ~PageLimitReached(page_count + 1, pages)
                                          /\ next_token # 0
                                       THEN << 1 >> ELSE << >>,
                             !.next_token = next_token,
                             !.ok_pages = IF n = 0 THEN @ ELSE @ + 1 ]
              /\ IF n = 0
                 THEN /\ fpc' = "paged"
                      /\ stopped_by' = "empty page"
                      /\ UNCHANGED << all_posts, page_count, pagination_token >>
                 ELSE /\ all_posts' = ExtendPosts(all_posts,
                                                  [ k \in 1..n |-> InlineMetrics(batch[k]) ])
                      /\ page_count' = page_count + 1
                      /\ IF PageLimitReached(page_count + 1, pages)
                         THEN /\ fpc' = "paged"
                              /\ stopped_by' = "page count"
                              /\ UNCHANGED pagination_token
                         ELSE /\ pagination_token' = next_token
                              /\ fpc' = IF next_token = 0 THEN "paged" ELSE "search"
                              /\ stopped_by' = IF next_token = 0 THEN "no cursor"
                                                ELSE stopped_by
    /\ search_requests' = search_requests + 1
    /\ UNCHANGED << callArgs, hydrateLocals, batch_requests, rate_limited >>
    /\ UNCHANGED outsideFetch

\* lines 145-175 up to the call of hydrate_public_metrics_verbose, and lines 200-218 of it
AfterPages ==
    /\ fpc = "paged"
    /\ IF ~ needs_metrics(fetch_metrics, all_posts)
       THEN /\ fpc' = "done"
            /\ UNCHANGED << all_posts, hydrateLocals >>
       ELSE IF should_skip_metrics_fetch(RATE_LIMIT_STATE, now)
       THEN /\ all_posts' = ComputeReach(MarkSkipped(all_posts, "Rate limited. Resets in"),
                                         compute_reach)
            /\ fpc' = "done"
            /\ UNCHANGED hydrateLocals
       ELSE IF IdsOf(all_posts) = << >>
       THEN \* return posts, False, "missing tweet ids"
            /\ all_posts' = ComputeReach(MarkLookup(all_posts, FALSE, "missing tweet ids"),
                                         compute_reach)
            /\ fpc' = "done"
            /\ UNCHANGED hydrateLocals
       ELSE /\ fpc' = "batch"
            /\ ids' = IdsOf(all_posts)
            /\ batch_no' = 1
            /\ retry_count' = 0
            /\ hydrated_any' = FALSE
            /\ last_error' = ""
            /\ batches_processed' = 0
            /\ UNCHANGED all_posts
    /\ UNCHANGED << afterLoop, pagination_token, page_count, RATE_LIMIT_STATE, now, served,
                    search_requests, batch_requests, rate_limited, wire >>
    /\ UNCHANGED outsideFetch

(***************************************************************************)
(* hydrate_public_metrics_verbose, as called from fetch_eligible_posts     *)
(***************************************************************************)
\* lines 305-310 and 162-175: hydrate returns (posts, hyd, err); fetch marks and returns
ReturnFromHydrate(posts, hyd, err) ==
    /\ all_posts' = ComputeReach(MarkLookup(posts, hyd, err), compute_reach)
    /\ fpc' = "done"

\* the while loop as it would be left if the for loop took the same batch again
StayOnBatch ==
    /\ fpc' = "batch"
    /\ UNCHANGED batch_no

\* the while loop is left: time.sleep(1) and the next batch
LeaveBatch ==
    /\ fpc' = "batch"
    /\ batch_no' = batch_no + 1

\* lines 295-300 as they would be if the handler did not catch the error
ExceptionEscapes ==
    /\ fpc' = "raised"
    /\ UNCHANGED << all_posts, ids, batch_no, retry_count, hydrated_any, last_error,
                    batches_processed >>

\* lines 295-300: except Exception
ExceptionPath ==
    /\ last_error' = "/2/tweets exception"
    /\ retry_count' = retry_count + 1
    /\ IF AttemptsLeft(retry_count + 1)
       THEN fpc' = "lookup" /\ UNCHANGED batch_no
       ELSE LeaveBatch
    /\ UNCHANGED << all_posts, ids, hydrated_any, batches_processed >>

\* lines 220-233 and 305-310: top of the for loop, or its end
HydrateBatch ==
    /\ fpc = "batch"
    /\ IF batch_no > ChunkCount(ids, LookupChunk)
       THEN /\ LET err == IF ~hydrated_any /\ last_error = ""
                          THEN "no metrics returned (check API access tier)"
                          ELSE last_error
               IN  /\ last_error' = err
                   /\ ReturnFromHydrate(all_posts, hydrated_any, err)
            /\ UNCHANGED retry_count
       ELSE IF should_skip_metrics_fetch(RATE_LIMIT_STATE, now)
       THEN /\ last_error' = "Rate limited. Resets in"
            /\ ReturnFromHydrate(all_posts, hydrated_any, "Rate limited. Resets in")
            /\ UNCHANGED retry_count
       ELSE /\ retry_count' = 0
            /\ fpc' = "lookup"
            /\ UNCHANGED << all_posts, last_error >>
    /\ batch_requests' = 0
    /\ UNCHANGED << afterLoop, pagination_token, page_count, ids, batch_no, hydrated_any,
                    batches_processed, RATE_LIMIT_STATE, now, served, search_requests,
                    rate_limited, wire >>
    /\ UNCHANGED outsideFetch

\* lines 239-253: the lookup endpoint answers 429
Lookup429 ==
    /\ fpc = "lookup"
    /\ AttemptsLeft(retry_count)
    /\ \E h \in HeaderChoices, ra \in RetryAfterChoices, d \in 0..Min(1, MaxNow - now) :
          LET retry_after == IF ra = Absent THEN DefaultRetryAfter ELSE ra
          IN  /\ RATE_LIMIT_STATE' = check_rate_limit_headers(RATE_LIMIT_STATE, h, now)
              /\ Tick(d)
              /\ wire' = [ wire EXCEPT
                             !.endpoint = "lookup", !.cursor = 0, !.next_token = 0, !.status = "429", !.retry_after = ra,
                             !.body = "none",
                             !.slept = IF ra = NotANumber THEN BackoffSleeps(retry_count + 1)
                                       ELSE IF TooLong(retry_after) THEN << >>
                                       ELSE IF AttemptsLeft(retry_count + 1)
                                       THEN << retry_after >>
                                       ELSE << retry_after, 1 >> ]
              /\ IF ra = NotANumber
                 THEN ExceptionPath
                 ELSE /\ last_error' = "Rate limited. Try again in"
                      /\ IF TooLong(retry_after)
                         THEN /\ ReturnFromHydrate(all_posts, hydrated_any,
                                                   "Rate limited. Try again in")
                              /\ UNCHANGED << retry_count, batch_no >>
                         ELSE /\ retry_count' = retry_count + 1
                              /\ IF AttemptsLeft(retry_count + 1)
                                 THEN fpc' = "lookup" /\ UNCHANGED batch_no
                                 ELSE LeaveBatch
                              /\ UNCHANGED all_posts
                      /\ UNCHANGED << ids, hydrated_any, batches_processed >>
    /\ batch_requests' = batch_requests + 1
    /\ UNCHANGED << afterLoop, pagination_token, page_count, served, search_requests,
                    rate_limited >>
    /\ UNCHANGED outsideFetch

\* lines 255-259: a status other than 200 and 429; the body is JSON with or
\* without "detail", empty, or not JSON (then r.json() raises inside the try)
LookupHttpError ==
    /\ fpc = "lookup"
    /\ AttemptsLeft(retry_count)
    /\ \E h \in HeaderChoices, body \in {"json", "empty", "not json"}, d \in 0..Min(1, MaxNow - now) :
          /\ RATE_LIMIT_STATE' = check_rate_limit_headers(RATE_LIMIT_STATE, h, now)
          /\ Tick(d)
          /\ wire' = [ wire EXCEPT
                         !.endpoint = "lookup", !.cursor = 0, !.next_token = 0, !.status = "error", !.retry_after = Absent,
                         !.body = body,
                         !.slept = IF body = "not json" THEN BackoffSleeps(retry_count + 1)
                                   ELSE << 1 >> ]
          /\ IF body = "not json"
             THEN ExceptionPath
             ELSE /\ last_error' = "/2/tweets status"
                  /\ LeaveBatch
                  /\ UNCHANGED << all_posts, ids, retry_count, hydrated_any,
                                  batches_processed >>
    /\ batch_requests' = batch_requests + 1
    /\ UNCHANGED << afterLoop, pagination_token, page_count, served, search_requests,
                    rate_limited >>
    /\ UNCHANGED outsideFetch

\* lines 261-293: a 200 answer with a JSON object
LookupOk ==
    /\ fpc = "lookup"
    /\ AttemptsLeft(retry_count)
    /\ wire' = [ wire EXCEPT !.endpoint = "lookup", !.cursor = 0, !.next_token = 0, !.status = "200", !.retry_after = Absent,
                             !.body = "none", !.slept = << 1 >> ]
    /\ \E body \in LookupBodies :
          /\ all_posts' = ApplyLookup(all_posts, _chunk_ids(ids, LookupChunk, batch_no), body)
          /\ hydrated_any' = (hydrated_any \/ body.data # "none")
    /\ \E h \in HeaderChoices, d \in 0..Min(1, MaxNow - now) :
          /\ RATE_LIMIT_STATE' = check_rate_limit_headers(RATE_LIMIT_STATE, h, now)
          /\ Tick(d)
    /\ batches_processed' = batches_processed + 1
    /\ LeaveBatch
    /\ batch_requests' = batch_requests + 1
    /\ UNCHANGED << afterLoop, pagination_token, page_count, ids, retry_count, last_error,
                    served, search_requests, rate_limited >>
    /\ UNCHANGED outsideFetch

\* lines 295-300: sess.get raises (no response), or a 200 body that r.json()
\* rejects or that is no JSON object
LookupException ==
    /\ fpc = "lookup"
    /\ AttemptsLeft(retry_count)
    /\ \E transport \in BOOLEAN, h \in HeaderChoices, d \in 0..Min(1, MaxNow - now) :
          /\ RATE_LIMIT_STATE' = IF transport THEN RATE_LIMIT_STATE
                                 ELSE check_rate_limit_headers(RATE_LIMIT_STATE, h, now)
          /\ Tick(d)
    /\ wire' = [ wire EXCEPT !.endpoint = "lookup", !.cursor = 0, !.next_token = 0, !.status = "exception",
                             !.retry_after = Absent, !.body = "none",
                             !.slept = BackoffSleeps(retry_count + 1) ]
    /\ ExceptionPath
    /\ batch_requests' = batch_requests + 1
    /\ UNCHANGED << afterLoop, pagination_token, page_count, served, search_requests,
                    rate_limited >>
    /\ UNCHANGED outsideFetch

NextFetch ==
    \/ CallOauth
    \/ SearchRateLimited
    \/ SearchHttpError
    \/ SearchException
    \/ SearchPage
    \/ AfterPages
    \/ HydrateBatch
    \/ Lookup429
    \/ LookupHttpError
    \/ LookupOk
    \/ LookupException

(***************************************************************************)
(* services/llm.py: helpers                                                *)
(***************************************************************************)
\* A text is described by what looks_claimy reads of it: its length, its
\* length once stripped, and whether NUMERIC_REGEX, CLAIMY_VERBS and the
\* keyword list match the stripped text.  raw = 0 is the empty or missing text.
Text(raw, stripped, numeric, verb, keyword) ==
    [ raw |-> raw, stripped |-> stripped, numeric |-> numeric, verb |-> verb,
      keyword |-> keyword ]

\* "The unemployment rate dropped to 3.4% last month, officials announced."
\* then: no signal; short with a number; empty; keyword only; exactly 30
\* characters with a claim verb; 29 characters once stripped, with a number
Texts ==
    << Text(70, 70, TRUE, TRUE, TRUE),
       Text(40, 40, FALSE, FALSE, FALSE),
       Text(12, 12, TRUE, FALSE, FALSE),
       Text(0, 0, FALSE, FALSE, FALSE),
       Text(45, 45, FALSE, FALSE, TRUE),
       Text(30, 30, FALSE, TRUE, FALSE),
       Text(35, 29, TRUE, FALSE, FALSE) >>

\* looks_claimy as it would be without the keyword list
looks_claimy_no_keywords(text) ==
    /\ text.raw > 0
    /\ text.stripped >= MinClaimLen
    /\ (text.numeric \/ text.verb)

\* looks_claimy
looks_claimy(text) ==
    IF text.raw = 0 THEN FALSE
    ELSE IF text.stripped < MinClaimLen THEN FALSE
    ELSE IF text.numeric \/ text.verb THEN TRUE
    ELSE IF text.keyword THEN TRUE
    ELSE FALSE

\* a post object as the language-model stages see it
LlmPost(id, text, rts) ==
    [ id |-> id, text |-> text, tweet_retweet_count |-> rts,
      llm_fact_check_reason |-> "unset",
      checkable_score |-> Absent, importance_score |-> Absent,
      llm_scoring_reason |-> "unset",
      final_score |-> Absent, retweet_score |-> Absent ]

\* n posts with ids 1..n whose texts run through Texts from place rot + 1
PostsFrom(n, rot) ==
    [ i \in 1..n |-> LlmPost(i, Texts[((i - 1 + rot) % Len(Texts)) + 1], 0) ]

\* _chunks: the chunk that starts after `pos` items
_chunks(seq, size, pos) == SubSeq(seq, pos + 1, Min(pos + size, Len(seq)))

\* An element of the parsed JSON array: a dict with the keys the filter reads
\* ("id", "is_fact_checkable": True, False or anything else, "reason"), or
\* something that is no dict.  id 0: the key is missing.
FilterItem(id, verdict, reason) ==
    [ dict |-> TRUE, id |-> id, is_fact_checkable |-> verdict, reason |-> reason ]
NotADict == [ dict |-> FALSE, id |-> 0, is_fact_checkable |-> "other", reason |-> "" ]

\* What the model answers to a prompt: the request fails, or the answer text
\* is a JSON array, a JSON object, another JSON value, a JSON array inside
\* code fences, or no JSON at all.
Reply(kind, items) == [ kind |-> kind, items |-> items ]

\* _call_json_array raises
CallRaises(reply) == reply.kind = "request failed"

\* _call_json_array: the list it returns when it returns
_call_json_array(reply) ==
    IF reply.kind = "json array" THEN reply.items
    ELSE IF reply.kind = "json object" THEN << reply.items[1] >>
    ELSE IF reply.kind = "fenced json array" THEN reply.items
    ELSE << >>

\* lines 97-112 and 173: what an answer text is to _call_json_array and to
\* the rmap comprehension: text that json.loads rejects also after the
\* cleanup, a JSON value that is neither a list nor an object, one object, or
\* a list (plain or inside code fences) by what it holds
AnswerClass(reply) ==
    IF reply.kind = "not json" THEN "unparseable"
    ELSE IF reply.kind = "json value" THEN "no list"
    ELSE IF reply.kind = "json object" THEN "object"
    ELSE IF reply.items = << >> THEN "empty list"
    ELSE IF \A k \in 1..Len(reply.items) : reply.items[k].dict THEN "list of objects"
    ELSE IF \E k \in 1..Len(reply.items) : reply.items[k].dict THEN "mixed list"
    ELSE "list without objects"

\* rmap = {str(r.get("id","")): r for r in results if isinstance(r, dict)}:
\* does it hold pid, and the entry it holds (the last one with that id)
InRmap(results, pid) == \E k \in 1..Len(results) : results[k].dict /\ results[k].id = pid
Rmap(results, pid) ==
    LET ks == { k \in 1..Len(results) : results[k].dict /\ results[k].id = pid }
    IN  results[CHOOSE k \in ks : \A j \in ks : j <= k]

(***************************************************************************)
(* filter_posts_with_llm                                                   *)
(***************************************************************************)
\* the answers tried for a batch of ids: every post affirmed, every post
\* denied, alternating, only the first post, denied without a reason, a
\* non-boolean verdict, items that are no dicts or carry no id, an id given
\* twice, and the answers _call_json_array turns into []
FilterReplies(bids) ==
    LET n == Len(bids)
    IN  { Reply("json array", [ k \in 1..n |-> FilterItem(bids[k], "True", "r") ]),
          Reply("json array", [ k \in 1..n |-> FilterItem(bids[k], "False", "r") ]),
          Reply("fenced json array",
                [ k \in 1..n |-> FilterItem(bids[k], IF k % 2 = 1 THEN "True" ELSE "False",
                                            IF k % 3 = 0 THEN "" ELSE "r") ]),
          Reply("json array",
                [ k \in 1..n |-> IF k % 2 = 1 THEN FilterItem(bids[k], "other", "r")
                                 ELSE NotADict ]),
          Reply("json array",
                << FilterItem(bids[1], "True", "r"), FilterItem(0, "True", "r"),
                   FilterItem(bids[1], "False", "") >>),
          Reply("json object", << FilterItem(bids[1], "True", "") >>),
          Reply("json array", [ k \in 1..n |-> NotADict ]),
          Reply("json array", << >>),
          Reply("json value", << >>),
          Reply("not json", << >>) }

\* lines 175-186 as they would be if only a post missing from rmap went to
\* the heuristic
FilterVerdictAbsentOnly(post, results) ==
    LET in_rmap == InRmap(results, post.id)
        flagged0 == in_rmap /\ Rmap(results, post.id).is_fact_checkable = "True"
        reason0 == IF in_rmap THEN Rmap(results, post.id).reason ELSE ""
    IN  IF ~in_rmap /\ looks_claimy(post.text)
        THEN << TRUE, "Heuristic: numeric/policy/claim-like language." >>
        ELSE << flagged0, reason0 >>

\* lines 175-186 as they would be without the fallback of lines 184-186
FilterVerdictNoFallback(post, results) ==
    LET in_rmap == InRmap(results, post.id)
        flagged0 == in_rmap /\ Rmap(results, post.id).is_fact_checkable = "True"
        reason0 == IF in_rmap THEN Rmap(results, post.id).reason ELSE ""
    IN  << flagged0, reason0 >>

\* lines 175-186: <<flagged, reason>> for one post
FilterVerdict(post, results) ==
    LET in_rmap == InRmap(results, post.id)
        flagged0 == in_rmap /\ Rmap(results, post.id).is_fact_checkable = "True"
        reason0 == IF in_rmap THEN Rmap(results, post.id).reason ELSE ""
    IN  IF ~flagged0 /\ looks_claimy(post.text)
        THEN << TRUE, IF reason0 # "" THEN reason0
                      ELSE "Heuristic: numeric/policy/claim-like language." >>
        ELSE << flagged0, reason0 >>

\* what rmap says of a post: "absent", or its is_fact_checkable
VerdictSeen(post, results) ==
    IF InRmap(results, post.id) THEN Rmap(results, post.id).is_fact_checkable ELSE "absent"

\* lines 188-190 as they would be with kept.insert(0, p)
KeepInFront(acc, batch) == batch \o acc

\* lines 188-190: kept.append(p) for the flagged posts of the batch, in order
KeepInOrder(acc, batch) == acc \o batch

InitFilterCall(n, rot, key) ==
    /\ store = PostsFrom(n, rot)
    /\ anthropic_api_key = key
    /\ f_posts = [ i \in 1..n |-> i ]
    /\ f_pc = "call"
    /\ f_pos = 0
    /\ kept = << >>
    /\ f_verdict = [ i \in 1..n |-> "pending" ]
    /\ f_answer = [ i \in 1..n |-> "pending" ]

\* lines 164-166: the empty input, then _anthropic_client
FilterCall ==
    /\ f_pc = "call"
    /\ f_pc' = IF f_posts = << >> THEN "done"
               ELSE IF anthropic_api_key = "" THEN "raised: key missing"
               ELSE "loop"
    /\ UNCHANGED << store, anthropic_api_key, f_posts, f_pos, kept, f_verdict, f_answer >>
    /\ UNCHANGED outsideFilter

\* lines 169-171 and 86-95: the request of a batch fails and _call_json_array raises
FilterRequestFails ==
    /\ f_pc = "loop"
    /\ f_pos < Len(f_posts)
    /\ \E reply \in { Reply("request failed", << >>) } :
          /\ CallRaises(reply)
          /\ f_pc' = "raised: request failed"
    /\ UNCHANGED << store, anthropic_api_key, f_posts, f_pos, kept, f_verdict, f_answer >>
    /\ UNCHANGED outsideFilter

\* lines 169-190: one batch, its answer, and the loop over its posts
FilterBatch ==
    /\ f_pc = "loop"
    /\ f_pos < Len(f_posts)
    /\ LET batch == _chunks(f_posts, BATCH_SIZE, f_pos)
           bids == [ k \in 1..Len(batch) |-> store[batch[k]].id ]
       IN  \E reply \in FilterReplies(bids) :
              LET results == _call_json_array(reply)
                  flagged(i) == FilterVerdict(store[i], results)[1]
              IN  /\ store' = [ i \in DOMAIN store |->
                                  IF (\E k \in 1..Len(batch) : batch[k] = i) /\ flagged(i)
                                  THEN [ store[i] EXCEPT !.llm_fact_check_reason =
                                                           FilterVerdict(store[i], results)[2] ]
                                  ELSE store[i] ]
                  /\ kept' = KeepInOrder(kept, SelectSeq(batch, flagged))
                  /\ f_verdict' = [ i \in DOMAIN f_verdict |->
                                      IF \E k \in 1..Len(batch) : batch[k] = i
                                      THEN VerdictSeen(store[i], results)
                                      ELSE f_verdict[i] ]
                  /\ f_answer' = [ i \in DOMAIN f_answer |->
                                     IF \E k \in 1..Len(batch) : batch[k] = i
                                     THEN AnswerClass(reply)
                                     ELSE f_answer[i] ]
                  /\ f_pos' = f_pos + Len(batch)
                  /\ f_pc' = IF f_pos + Len(batch) >= Len(f_posts) THEN "done" ELSE "loop"
    /\ UNCHANGED << anthropic_api_key, f_posts >>
    /\ UNCHANGED outsideFilter

NextFilter ==
    \/ FilterCall
    \/ FilterRequestFails
    \/ FilterBatch

(***************************************************************************)
(* score_posts_with_llm                                                    *)
(***************************************************************************)
\* A score as the remote answer gives it: a JSON integer, a string of digits,
\* a number with a fraction (v is its integer part), a string that is no
\* number, null, or a missing key.
Score(kind, v) == [ kind |-> kind, v |-> v ]
MissingScore == Score("missing", 0)

\* int(x) raises ValueError or TypeError
IntRaises(x) == x.kind \in {"text", "null"}

\* int(r.get(key, 0)) when it does not raise
IntOf(x) == IF x.kind = "missing" THEN 0 ELSE x.v

\* an element of the parsed JSON array of the scoring prompt
ScoreItem(id, chk, imp, reason) ==
    [ dict |-> TRUE, id |-> id, checkable_score |-> chk, importance_score |-> imp,
      scoring_reason |-> reason ]
NotAScoreDict ==
    [ dict |-> FALSE, id |-> 0, checkable_score |-> MissingScore,
      importance_score |-> MissingScore, scoring_reason |-> "" ]

\* pairs <<checkable_score, importance_score>> a remote answer may hold
ScorePairs ==
    << << Score("int", 7),    Score("int", 3) >>,
       << Score("text", 0),   Score("int", 7) >>,
       << Score("int", 11),   Score("int", 5) >>,
       << Score("int", 0),    Score("int", 10) >>,
       << Score("int", -5),   Score("int", 1) >>,
       << MissingScore,       Score("int", 4) >>,
       << Score("digits", 7), Score("fraction", 7) >>,
       << Score("int", 9),    Score("null", 0) >> >>

\* the answers tried for a batch of ids: the pairs of ScorePairs in turn from
\* two starting places, the first post only, items that are no dicts, and the
\* answers _call_json_array turns into []
ScoreReplies(bids) ==
    LET n == Len(bids)
        item(k, rot) ==
            LET pair == ScorePairs[((k - 1 + rot) % Len(ScorePairs)) + 1]
            IN  ScoreItem(bids[k], pair[1], pair[2], "r")
    IN  { Reply("json array", [ k \in 1..n |-> item(k, 0) ]),
          Reply("fenced json array", [ k \in 1..n |-> item(k, 3) ]),
          Reply("json object", << item(1, 0) >>),
          Reply("json array", [ k \in 1..n |-> IF k % 2 = 0 THEN item(k, 1)
                                               ELSE NotAScoreDict ]),
          Reply("json array", << >>),
          Reply("not json", << >>) }

\* r = rmap.get(pid, {}): the two score values the loop reads for a post
RemotePair(post, results) ==
    IF InRmap(results, post.id)
    THEN << Rmap(results, post.id).checkable_score,
            Rmap(results, post.id).importance_score >>
    ELSE << MissingScore, MissingScore >>

\* line 216/217: x if 1 <= x <= 10 else 0
Clamp(x) == IF 1 <= x /\ x <= 10 THEN x ELSE 0

\* the scores as they would be if a value int() rejects left both keys off
ScoresOfUnsetOnError(pair) ==
    IF IntRaises(pair[1]) \/ IntRaises(pair[2])
    THEN << Absent, Absent >>
    ELSE << Clamp(IntOf(pair[1])), Clamp(IntOf(pair[2])) >>

\* lines 210-217: <<checkable, importance>> for a pair of remote values
ScoresOf(pair) ==
    IF IntRaises(pair[1]) \/ IntRaises(pair[2])
    THEN << 0, 0 >>
    ELSE << Clamp(IntOf(pair[1])), Clamp(IntOf(pair[2])) >>

InitScoreCall(idxs) ==
    /\ s_posts = idxs
    /\ s_pc = "call"
    /\ s_pos = 0
    /\ scored = << >>
    /\ s_remote = [ i \in DOMAIN store |-> << >> ]

\* lines 197-199: the empty input, then _anthropic_client
ScoreCall ==
    /\ s_pc = "call"
    /\ s_pc' = IF s_posts = << >> THEN "done"
               ELSE IF anthropic_api_key = "" THEN "raised: key missing"
               ELSE "loop"
    /\ UNCHANGED << store, anthropic_api_key, s_posts, s_pos, scored, s_remote >>
    /\ UNCHANGED outsideScore

\* lines 202-204 and 86-95: the request of a batch fails and _call_json_array raises
ScoreRequestFails ==
    /\ s_pc = "loop"
    /\ s_pos < Len(s_posts)
    /\ \E reply \in { Reply("request failed", << >>) } :
          /\ CallRaises(reply)
          /\ s_pc' = "raised: request failed"
    /\ UNCHANGED << store, anthropic_api_key, s_posts, s_pos, scored, s_remote >>
    /\ UNCHANGED outsideScore

\* lines 202-221: one batch, its answer, and the loop over its posts
ScoreBatch ==
    /\ s_pc = "loop"
    /\ s_pos < Len(s_posts)
    /\ LET batch == _chunks(s_posts, BATCH_SIZE, s_pos)
           bids == [ k \in 1..Len(batch) |-> store[batch[k]].id ]
           inbatch(i) == \E k \in 1..Len(batch) : batch[k] = i
       IN  \E reply \in ScoreReplies(bids) :
              LET results == _call_json_array(reply)
              IN  /\ store' = [ i \in DOMAIN store |->
                                  IF inbatch(i)
                                  THEN [ store[i] EXCEPT
                                           !.checkable_score =
                                               ScoresOf(RemotePair(store[i], results))[1],
                                           !.importance_score =
                                               ScoresOf(RemotePair(store[i], results))[2],
                                           !.llm_scoring_reason =
                                               IF InRmap(results, store[i].id)
                                               THEN Rmap(results, store[i].id).scoring_reason
                                               ELSE "" ]
                                  ELSE store[i] ]
                  /\ scored' = scored \o batch
                  /\ s_remote' = [ i \in DOMAIN s_remote |->
                                     IF inbatch(i) THEN RemotePair(store[i], results)
                                     ELSE s_remote[i] ]
                  /\ s_pos' = s_pos + Len(batch)
                  /\ s_pc' = IF s_pos + Len(batch) >= Len(s_posts) THEN "done" ELSE "loop"
    /\ UNCHANGED << anthropic_api_key, s_posts >>
    /\ UNCHANGED outsideScore

NextScore ==
    \/ ScoreCall
    \/ ScoreRequestFails
    \/ ScoreBatch

(***************************************************************************)
(* app.py: _do_analyze                                                     *)
(***************************************************************************)
\* int(p.get("tweet_retweet_count", 0) or 0)
RetweetsOf(post) == IF post.tweet_retweet_count = Absent THEN 0 ELSE post.tweet_retweet_count

\* _apply_high_reach_filter on a list of positions
_apply_high_reach_filter(posts, heap, enabled, threshold) ==
    IF ~enabled THEN posts
    ELSE SelectSeq(posts, LAMBDA i : RetweetsOf(heap[i]) >= threshold)

\* _retweet_score in thousandths: min(10, log1p(rts)/log(1000)*10), 0 for no
\* retweets; log1p(rts)/log(1000) is tabulated for the counts the model uses
Log1pRatio(rts) ==
    IF rts >= 999 THEN 10000
    ELSE IF rts >= 25 THEN 4717
    ELSE IF rts >= 9 THEN 3333
    ELSE 1003

_retweet_score(post) ==
    IF RetweetsOf(post) <= 0 THEN 0 ELSE Min(10000, Log1pRatio(RetweetsOf(post)))

\* int(p.get(key, 0) or 0) of a score
ScoreOr0(x) == IF x = Absent THEN 0 ELSE x

\* line 141, in thousandths: 0.5 * imp + 0.3 * chk + 0.2 * rt
FinalScore(post) ==
    500 * ScoreOr0(post.importance_score) + 300 * ScoreOr0(post.checkable_score)
    + (200 * _retweet_score(post)) \div 1000

\* x.get("_final_score", 0)
SortKey(heap, i) == IF heap[i].final_score = Absent THEN 0 ELSE heap[i].final_score

\* a sort that puts an item before the items of equal key already placed
InsertBeforeEqual(sorted, x, heap) ==
    LET before == { j \in 1..Len(sorted) : SortKey(heap, sorted[j]) > SortKey(heap, x) }
        n == Cardinality(before)
    IN  SubSeq(sorted, 1, n) \o << x >> \o SubSeq(sorted, n + 1, Len(sorted))

\* one insertion of a stable descending sort: x goes behind every item whose
\* key is at least its own
InsertStable(sorted, x, heap) ==
    LET before == { j \in 1..Len(sorted) : SortKey(heap, sorted[j]) >= SortKey(heap, x) }
        n == Cardinality(before)
    IN  SubSeq(sorted, 1, n) \o << x >> \o SubSeq(sorted, n + 1, Len(sorted))

\* line 144: sorted(scored, key=..., reverse=True), which is stable
RECURSIVE SortedByFinalScore(_, _)
SortedByFinalScore(posts, heap) ==
    IF posts = << >> THEN << >>
    ELSE InsertStable(SortedByFinalScore(SubSeq(posts, 1, Len(posts) - 1), heap),
                      posts[Len(posts)], heap)

\* lines 120 and 145: the switch _apply_high_reach_filter reads when it is
\* applied before scoring, and when it is applied after ranking
PreScoringSwitch == enable_high_reach_filter

PostRankingSwitch == enable_high_reach_filter

\* lines 116-126: the click on "Analyze & rank" up to the call of the filter
AnalyzeStart ==
    /\ a_pc = "clicked"
    /\ IF raw_posts = << >>
       THEN /\ a_pc' = "returned"
            /\ UNCHANGED filterVars
       ELSE LET analysis_input == _apply_high_reach_filter(raw_posts, store,
                                     PreScoringSwitch, min_retweets_threshold)
            IN  /\ a_pc' = "filtering"
                /\ f_posts' = analysis_input
                /\ f_pc' = "call"
                /\ f_pos' = 0
                /\ kept' = << >>
                /\ f_verdict' = [ i \in DOMAIN store |-> "pending" ]
                /\ f_answer' = [ i \in DOMAIN store |-> "pending" ]
    /\ UNCHANGED << store, anthropic_api_key, scoreVars, raw_posts, filtered_posts,
                    ranked_posts, did_analyze, enable_high_reach_filter,
                    min_retweets_threshold, outsideAnalyze >>

\* lines 127-133: the filter has returned; ss.filtered_posts, then the scorer
AnalyzeScore ==
    /\ a_pc = "filtering"
    /\ f_pc = "done"
    /\ filtered_posts' = kept
    /\ a_pc' = "scoring"
    /\ s_posts' = kept
    /\ s_pc' = "call"
    /\ s_pos' = 0
    /\ scored' = << >>
    /\ s_remote' = [ i \in DOMAIN store |-> << >> ]
    /\ UNCHANGED << store, anthropic_api_key, filterVars, raw_posts, ranked_posts,
                    did_analyze, enable_high_reach_filter, min_retweets_threshold,
                    outsideAnalyze >>

\* the filter or the scorer raised: nothing in _do_analyze catches it
AnalyzeRaises ==
    /\ \/ a_pc = "filtering" /\ f_pc \in {"raised: key missing", "raised: request failed"}
       \/ a_pc = "scoring" /\ s_pc \in {"raised: key missing", "raised: request failed"}
    /\ a_pc' = "raised"
    /\ UNCHANGED << store, anthropic_api_key, filterVars, scoreVars, raw_posts,
                    filtered_posts, ranked_posts, did_analyze, enable_high_reach_filter,
                    min_retweets_threshold, outsideAnalyze >>

\* lines 135-148: final scores, the sort, the threshold, ss.ranked_posts
AnalyzeRank ==
    /\ a_pc = "scoring"
    /\ s_pc = "done"
    /\ LET inscored(i) == \E k \in 1..Len(scored) : scored[k] = i
           heap == [ i \in DOMAIN store |->
                       IF inscored(i)
                       THEN [ store[i] EXCEPT !.final_score = FinalScore(store[i]),
                                              !.retweet_score = _retweet_score(store[i]) ]
                       ELSE store[i] ]
           ranked == SortedByFinalScore(scored, heap)
       IN  /\ store' = heap
           /\ ranked_posts' = _apply_high_reach_filter(ranked, heap,
                                  PostRankingSwitch, min_retweets_threshold)
    /\ did_analyze' = TRUE
    /\ a_pc' = "returned"
    /\ UNCHANGED << anthropic_api_key, filterVars, scoreVars, raw_posts, filtered_posts,
                    enable_high_reach_filter, min_retweets_threshold, outsideAnalyze >>

NextAnalyze ==
    \/ AnalyzeStart
    \/ FilterCall
    \/ FilterRequestFails
    \/ FilterBatch
    \/ AnalyzeScore
    \/ ScoreCall
    \/ ScoreRequestFails
    \/ ScoreBatch
    \/ AnalyzeRaises
    \/ AnalyzeRank

(***************************************************************************)
(* services/x_api.py: should_skip_metrics_fetch called on its own          *)
(***************************************************************************)
\* what RATE_LIMIT_STATE can hold when the function is called: remaining None
\* or a count around the low-water mark, reset_time None or a moment of the
\* clock
SkipRateStates ==
    { [ remaining |-> r, reset_time |-> rt, last_checked |-> IF r = None THEN None ELSE 0 ] :
        r \in {None, 0, LowWater - 1, LowWater, LowWater + 1, 100},
        rt \in {None} \cup (0..SkipClock) }

\* lines 48-59: the whole function; it reads RATE_LIMIT_STATE and the clock,
\* prints, and returns
CallShouldSkip ==
    /\ skip_pc = "call"
    /\ skip' = should_skip_metrics_fetch(RATE_LIMIT_STATE, now)
    /\ skip_pc' = "returned"
    /\ UNCHANGED << creds, pages, fetch_metrics, compute_reach, fpc, all_posts,
                    pagination_token, page_count, ids, batch_no, retry_count,
                    hydrated_any, last_error, batches_processed, RATE_LIMIT_STATE, now,
                    served, search_requests, batch_requests, rate_limited, rl_at_call,
                    stopped_by, wire >>
    /\ UNCHANGED llmVars

NextSkip == CallShouldSkip

(***************************************************************************)
(* utils/io.py: save_posts_to_csv                                          *)
(***************************************************************************)
\* no file at the destination path
NoFile == [ exists |-> FALSE, rows |-> << >> ]

\* lines 8-16: a row is a copy of the post (r = dict(p)) that gets a
\* post_link when the post has an id; the link is determined by the id
add_links_to_rows(posts, heap) ==
    [ k \in 1..Len(posts) |->
        [ fields |-> heap[posts[k]],
          post_link |-> IF heap[posts[k]].id # 0 THEN heap[posts[k]].id ELSE Absent ] ]

\* a file an earlier export left at the destination path
OldFile == [ exists |-> TRUE, rows |-> add_links_to_rows(<< 1 >>, PostsFrom(1, 0)) ]

\* lines 39-44 as they would be if the file were opened before the rows are looked at
FileOpenedFirst(file) == [ exists |-> TRUE, rows |-> << >> ]

\* lines 19-21: the error is raised before open(): the file is as it was
FileOnRaise(file) == file

\* lines 39-44: open(path, "w") and one line per row
FileWritten(rows) == [ exists |-> TRUE, rows |-> rows ]

\* a call of save_posts_to_csv
InitSaveCall(posts) ==
    /\ x_posts = posts
    /\ x_pc = "call"

\* lines 19-21: no rows
SaveRaises ==
    /\ x_pc = "call"
    /\ add_links_to_rows(x_posts, store) = << >>
    /\ x_pc' = "raised"
    /\ csv_file' = FileOnRaise(csv_file)
    /\ UNCHANGED x_posts
    /\ UNCHANGED outsideExport

\* lines 23-45: the file is written and its path returned
SaveWrites ==
    /\ x_pc = "call"
    /\ add_links_to_rows(x_posts, store) # << >>
    /\ x_pc' = "returned"
    /\ csv_file' = FileWritten(add_links_to_rows(x_posts, store))
    /\ UNCHANGED x_posts
    /\ UNCHANGED outsideExport

NextExport ==
    \/ SaveRaises
    \/ SaveWrites

(***************************************************************************)
(* Properties of fetch_eligible_posts                                      *)
(***************************************************************************)
BlankCredential == \E i \in 1..4 : creds[i] = ""

\* what the server sent, read off a returned post
AsServed(p) == [ id |-> p.id, public_metrics |-> p.public_metrics ]

\* C1: when fetch_eligible_posts returns, the returned list is the posts of
\* the pages received with status 200, in page order and in the order within
\* each page, none dropped, duplicated or reordered; also when the page loop
\* was ended by a non-200 status or an exception.
C1_ReturnsServedInOrder ==
    fpc = "done" =>
        /\ Len(all_posts) = Len(served)
        /\ \A i \in 1..Len(served) : AsServed(all_posts[i]) = AsServed(served[i])

\* a second page request failed after a first page of 60 posts, and the call returned
C1_Witness ==
    /\ fpc = "done"
    /\ stopped_by \in {"status", "exception"}
    /\ page_count = 1
    /\ pages = 2
    /\ Len(all_posts) = 60

\* C2: with four non-blank credentials the call never ends by raising,
\* whatever the lookup endpoint answers (429 with any retry-after, another
\* status, a transport exception, an empty or malformed body).
C2_LookupNeverRaises ==
    ~BlankCredential => fpc # "raised"

\* the third attempt of a batch ended in the exception handler and the call returned
C2_Witness ==
    /\ fpc = "done"
    /\ retry_count = MaxRetries
    /\ last_error = "/2/tweets exception"
    /\ Len(all_posts) > 0

\* hydration was asked for and no post came out hydrated
HydrationFailed ==
    /\ fpc = "done"
    /\ fetch_metrics
    /\ Len(all_posts) > 0
    /\ \A i \in 1..Len(all_posts) : ~IsHydrated(all_posts[i])

\* C3 as claimed: when hydration was requested and failed or was abandoned,
\* every returned post has its hydration flag False and a reason string, and
\* its four engagement counts present with value 0.
C3_EveryPostFlagged ==
    HydrationFailed =>
        \A i \in 1..Len(all_posts) :
            /\ all_posts[i].metrics_hydrated = "false"
            /\ all_posts[i].metrics_reason # "unset"
            /\ all_posts[i].tweet_retweet_count = 0
            /\ all_posts[i].tweet_like_count = 0
            /\ all_posts[i].tweet_reply_count = 0
            /\ all_posts[i].tweet_quote_count = 0

\* C4: with a blank credential the call fails in _oauth: it never gets past
\* it, sends no request to either endpoint and leaves RATE_LIMIT_STATE as it
\* found it.
C4_BlankCredentialFailsFast ==
    BlankCredential =>
        /\ fpc \in {"call", "raised"}
        /\ search_requests = 0
        /\ batch_requests = 0
        /\ all_posts = << >>
        /\ RATE_LIMIT_STATE = rl_at_call

\* the call has raised on a blank access token secret with rate information on record
C4_Witness ==
    /\ fpc = "raised"
    /\ creds[4] = ""
    /\ creds[1] # ""
    /\ RATE_LIMIT_STATE # NoRateInfo

\* a step that sends a request to the search endpoint, to the lookup endpoint
SearchRequestStep == search_requests' = search_requests + 1

LookupRequestStep == batch_requests' = batch_requests + 1

\* C14: a 429 of the search endpoint whose retry-after is a number of seconds
\* or absent is slept out for that long (60 s when absent); it adds no post,
\* leaves the page counter, the cursor and so the pages still allowed as they
\* were, and the request that follows it carries the same cursor.
C14_RateLimitedPageRetried ==
    [][ SearchRequestStep =>
          /\ (wire'.status = "429" /\ wire'.retry_after # NotANumber) =>
                /\ wire'.slept = << IF wire'.retry_after = Absent THEN 60
                                    ELSE wire'.retry_after >>
                /\ fpc' = "search"
                /\ all_posts' = all_posts
                /\ page_count' = page_count
                /\ pagination_token' = pagination_token
                /\ pages' - page_count' = pages - page_count
          /\ (wire.endpoint = "search" /\ wire.status = "429") =>
                wire'.cursor = wire.cursor ]_vars

\* the request for the second page was answered 429 without retry-after: the
\* call slept 60 s and is about to ask for the second page again
C14_Witness ==
    /\ fpc = "search"
    /\ wire.status = "429"
    /\ wire.retry_after = Absent
    /\ wire.slept = << 60 >>
    /\ wire.cursor = 1
    /\ page_count = 1
    /\ pages = 2

\* C15: at most `pages` pages with posts are accumulated, and after a 200
\* answer with an empty data list or without next_token no further page is
\* requested, however many pages are still allowed.
C15_PageLoopStops ==
    /\ wire.ok_pages <= pages
    /\ page_count <= pages
    /\ ( /\ wire.endpoint = "search"
         /\ \/ wire.status = "200 empty"
            \/ wire.status = "200" /\ wire.next_token = 0 )
       => fpc # "search"

\* with two pages allowed, the first page came without next_token and the call
\* has returned with that page alone
C15_Witness ==
    /\ fpc = "done"
    /\ pages = 2
    /\ wire.endpoint = "search"
    /\ wire.status = "200"
    /\ wire.next_token = 0
    /\ wire.ok_pages = 1
    /\ Len(all_posts) = 60

\* C16: every page request carries the next_token of the latest 200 answer,
\* and none before the first such answer; so does a request that repeats a
\* page after a 429.
C16_CursorIsLatestToken ==
    [][ SearchRequestStep => wire'.cursor = wire.next_token ]_vars

\* the second page was asked for with the first page's token, answered 429,
\* asked for again and received
C16_Witness ==
    /\ wire.endpoint = "search"
    /\ wire.status = "200"
    /\ wire.cursor = 1
    /\ wire.ok_pages = 2
    /\ rate_limited = 1
    /\ search_requests = 3

ThirdAttemptFailed ==
    /\ LookupRequestStep
    /\ batch_requests' = 3
    /\ wire'.status # "200"
    /\ ~ (wire'.status = "429" /\ wire'.retry_after = 301)

C19_ErrorStatusAbandonsBatch ==
    [][ (LookupRequestStep /\ wire'.status = "error") =>
            /\ fpc' = "batch"
            /\ batch_no' = batch_no + 1
            /\ last_error' # "" ]_vars

C26_LowRateStopsLaterBatches ==
    [][ /\ ( /\ fpc = "batch"
             /\ wire.endpoint = "lookup"
             /\ batch_no <= ChunkCount(ids, LookupChunk)
             /\ RATE_LIMIT_STATE.remaining # None
             /\ RATE_LIMIT_STATE.remaining <= 5
             /\ RATE_LIMIT_STATE.reset_time # None
             /\ RATE_LIMIT_STATE.reset_time > now )
           => /\ fpc' = "done"
              /\ ~ LookupRequestStep
              /\ wire' = wire
              /\ last_error' = "Rate limited. Resets in"
              /\ Len(all_posts') = Len(all_posts)
              /\ \A i \in 2..Len(all_posts) :
                    all_posts'[i] = [ all_posts[i] EXCEPT
                                        !.reach_score = all_posts'[i].reach_score ]
              /\ ~ compute_reach => \A i \in 2..Len(all_posts) : all_posts'[i] = all_posts[i]
        /\ fpc = "done" => (~ LookupRequestStep /\ all_posts' = all_posts) ]_vars

\* the first of two batches was hydrated by an answer that left 3 requests
\* until a reset still ahead: the call returned with the rate-limit reason
\* before the second batch, whose posts are without counts
C26_Witness ==
    /\ fpc = "done"
    /\ last_error = "Rate limited. Resets in"
    /\ wire.endpoint = "lookup"
    /\ wire.status = "200"
    /\ batch_no = 2
    /\ ChunkCount(ids, LookupChunk) = 2
    /\ batches_processed = 1
    /\ hydrated_any
    /\ all_posts[1].tweet_retweet_count # Absent
    /\ all_posts[Len(all_posts)].tweet_retweet_count = Absent
    /\ RATE_LIMIT_STATE.remaining = 3
    /\ RATE_LIMIT_STATE.reset_time > now

\* the search endpoint answered 429 and the page loop asks for the page again
RetriedAfter429 == fpc = "search" /\ fpc' = "search" /\ wire'.status = "429"

\* fetch_eligible_posts has returned or raised
Returned == fpc \in {"done", "raised"}

\* steps a batch of the lookup takes at most: the top of the for loop and
\* MaxRetries requests
BatchSteps == MaxRetries + 1

\* the lookup batches the posts fetched so far can need (one id for each
\* post at most)
PostChunks == (Len(all_posts) + LookupChunk - 1) \div LookupChunk

\* an upper bound of the steps the call still takes when no 429 of the search
\* endpoint intervenes: a page (of at most LookupChunk posts) for each page
\* left, and BatchSteps for each batch of LookupChunk ids left
StepsLeft ==
    IF fpc = "call" THEN pages * (BatchSteps + 1) + 4
    ELSE IF fpc = "search"
    THEN (pages - page_count) * (BatchSteps + 1)
         + PostChunks * BatchSteps + 3
    ELSE IF fpc = "paged" THEN PostChunks * BatchSteps + 2
    ELSE IF fpc = "batch"
    THEN (ChunkCount(ids, LookupChunk) - batch_no + 1) * BatchSteps + 1
    ELSE IF fpc = "lookup"
    THEN (ChunkCount(ids, LookupChunk) - batch_no) * BatchSteps + 1
         + (MaxRetries - retry_count)
    ELSE 0

\* C25: fetch_eligible_posts returns whenever the search endpoint answers 429
\* only finitely often: every step other than the retry of a page after a 429
\* brings the return nearer, at most `pages` pages are taken and at most 3
\* requests are sent for a batch of 100 ids.  A 429 can come at every turn of
\* the page loop and its retry brings the return no nearer, so under 429 for
\* ever the call never returns.
C25_ReturnsUnlessRateLimitedForever ==
    /\ (<>[][~ RetriedAfter429]_vars) => <>Returned
    /\ [][ ~ RetriedAfter429 => StepsLeft' < StepsLeft ]_vars
    /\ [][ RetriedAfter429 => (StepsLeft' = StepsLeft /\ ~ Returned') ]_vars
    /\ [](StepsLeft >= 0 /\ (StepsLeft = 0 <=> Returned))
    /\ [](page_count <= pages /\ batch_requests <= MaxRetries)
    /\ [](fpc = "search" =>
            ENABLED ((SearchRateLimited \/ SearchRateLimitedUncounted) /\ fpc' = "search"))

\* the call has returned all its pages and two lookup batches although the
\* search endpoint answered 429 on the way
C25_Witness ==
    /\ fpc = "done"
    /\ rate_limited = MaxRateLimited
    /\ page_count = pages
    /\ pages = MaxPages
    /\ batch_no > 2

(***************************************************************************)
(* Properties of filter_posts_with_llm and score_posts_with_llm            *)
(***************************************************************************)
Range(seq) == { seq[k] : k \in 1..Len(seq) }

\* the place of x in a list without repetitions (0 if it is not there)
PlaceIn(seq, x) == IF x \in Range(seq) THEN CHOOSE k \in 1..Len(seq) : seq[k] = x ELSE 0

\* the heuristic as the specification words it: at least 30 characters once
\* stripped, and a numeric pattern, a claim verb or a listed keyword
PassesHeuristic(text) ==
    /\ text.stripped >= 30
    /\ (text.numeric \/ text.verb \/ text.keyword)

\* C5: when filter_posts_with_llm returns, every post whose remote verdict was
\* absent or negative and whose text passes the heuristic is in the output;
\* so is the post with a number and a claim verb that the answer did not name.
C5_HeuristicRescues ==
    f_pc = "done" =>
        \A i \in Range(f_posts) :
            (f_verdict[i] \in {"absent", "False"} /\ PassesHeuristic(store[i].text))
                => i \in Range(kept)

\* the 70-character example came back from a call whose answer did not name it,
\* and a keyword-only post was kept against a negative verdict
C5_Witness ==
    /\ f_pc = "done"
    /\ \E i \in Range(kept) :
          /\ f_verdict[i] = "absent"
          /\ store[i].text = Texts[1]
          /\ store[i].llm_fact_check_reason = "Heuristic: numeric/policy/claim-like language."
    /\ \E i \in Range(kept) :
          /\ f_verdict[i] = "False"
          /\ store[i].text = Texts[5]

\* C6: the output of filter_posts_with_llm is an order-preserving subsequence
\* of its input, within and across the batches of 12: kept posts stand in
\* input order, none twice, and a post is in it exactly when it was flagged.
C6_OrderPreservingSubsequence ==
    f_pc = "done" =>
        /\ Range(kept) \subseteq Range(f_posts)
        /\ \A a, b \in 1..Len(kept) :
              a < b => PlaceIn(f_posts, kept[a]) < PlaceIn(f_posts, kept[b])
        /\ \A i \in Range(f_posts) :
              i \in Range(kept) <=> (f_verdict[i] = "True" \/ PassesHeuristic(store[i].text))

\* 13 posts, two batches: posts of both batches were kept and one was rejected
C6_Witness ==
    /\ f_pc = "done"
    /\ Len(f_posts) = BATCH_SIZE + 1
    /\ f_posts[BATCH_SIZE + 1] \in Range(kept)
    /\ f_posts[1] \in Range(kept)
    /\ f_posts[2] \notin Range(kept)
    /\ Len(kept) > 2

\* C22 as claimed: a post the classifier affirmatively classified as not
\* fact-checkable is not rescued by the heuristic; it is dropped even when
\* its text matches the heuristic.
C22_NegativeVerdictNotRescued ==
    f_pc = "done" =>
        \A i \in Range(f_posts) : f_verdict[i] = "False" => i \notin Range(kept)

\* C22 as the code has it: the heuristic runs on every post that was not
\* flagged by a verdict of true, a negative verdict included; a post with a
\* negative verdict is kept exactly when its text matches the heuristic.
C22_NegativeVerdictRescuedByHeuristic ==
    f_pc = "done" =>
        \A i \in Range(f_posts) :
            f_verdict[i] = "False" =>
                /\ (i \in Range(kept) <=> PassesHeuristic(store[i].text))
                /\ i \in Range(kept) => store[i].llm_fact_check_reason # "unset"

\* of two posts the classifier denied, the one whose text matches the
\* heuristic was kept and the other was dropped
C22_Witness ==
    /\ f_pc = "done"
    /\ \E i, j \in Range(f_posts) :
          /\ f_verdict[i] = "False"
          /\ f_verdict[j] = "False"
          /\ PassesHeuristic(store[i].text)
          /\ i \in Range(kept)
          /\ ~ PassesHeuristic(store[j].text)
          /\ j \notin Range(kept)

\* the filter has just examined post i with the answer to its batch
JustAnswered(i) == f_answer[i] = "pending" /\ f_answer'[i] # "pending"

\* post i is treated as a post without a verdict: the heuristic alone decides
\* whether it is kept, and the reason written on it is the heuristic's
NoVerdictFor(i) ==
    /\ f_verdict'[i] = "absent"
    /\ i \in Range(kept') <=> PassesHeuristic(store[i].text)
    /\ i \in Range(kept') =>
          store'[i].llm_fact_check_reason = "Heuristic: numeric/policy/claim-like language."

\* the batch loop goes on, or ends because the input is used up; nothing is
\* raised
FilterGoesOn ==
    /\ f_pc' \in {"loop", "done"}
    /\ f_pc' = "loop" <=> f_pos' < Len(f_posts)

\* C23 as claimed: when the answer for a batch cannot be parsed, or parses to
\* something other than a list of objects, every post of the batch has no
\* verdict and is kept exactly when the heuristic accepts it; the following
\* batches are processed and nothing is raised.
C23_BadAnswerMeansNoVerdict ==
    [][ \A i \in DOMAIN f_answer :
          ( /\ JustAnswered(i)
            /\ f_answer'[i] \in {"unparseable", "no list", "object", "mixed list",
                                 "list without objects"} )
          => /\ NoVerdictFor(i)
             /\ FilterGoesOn ]_vars

\* C23 as the code has it: an answer that cannot be parsed, a JSON value that
\* is neither a list nor an object, and a list that holds no object leave
\* every post of the batch without a verdict; one object counts as a list of
\* one, and in a list the objects are used and the rest is ignored.  In every
\* case a post is kept exactly when its verdict is true or the heuristic
\* accepts it, the following batches are processed and nothing is raised.
C23_UnusableAnswerMeansNoVerdict ==
    [][ \A i \in DOMAIN f_answer :
          JustAnswered(i)
          => /\ f_answer'[i] \in {"unparseable", "no list", "list without objects",
                                  "empty list"}
                   => NoVerdictFor(i)
             /\ i \in Range(kept') <=>
                   (f_verdict'[i] = "True" \/ PassesHeuristic(store[i].text))
             /\ FilterGoesOn ]_vars

\* the answer to the first of two batches was no JSON: its first post was
\* kept by the heuristic, its second was dropped, and the last post of the
\* second batch was kept on the classifier's verdict
C23_Witness ==
    /\ f_pc = "done"
    /\ Len(f_posts) = BATCH_SIZE + 1
    /\ f_answer[f_posts[1]] = "unparseable"
    /\ f_verdict[f_posts[1]] = "absent"
    /\ f_posts[1] \in Range(kept)
    /\ f_posts[2] \notin Range(kept)
    /\ f_answer[f_posts[BATCH_SIZE + 1]] = "list of objects"
    /\ f_verdict[f_posts[BATCH_SIZE + 1]] = "True"
    /\ f_posts[BATCH_SIZE + 1] \in Range(kept)

\* C7 as claimed: a failed request of one batch is absorbed like an
\* unparseable answer; the filter goes on with the heuristic alone and nothing
\* is raised to the caller.
C7_RequestFailureAbsorbed ==
    f_pc # "raised: request failed"

\* C8 as claimed: whatever the scoring call did (an answer, a partial or
\* unparseable answer, a failed request), score_posts_with_llm ends with
\* exactly the input posts in input order, each with both scores set.
C8_NoPostDropped ==
    s_pc \in {"done", "raised: request failed"} =>
        /\ scored = s_posts
        /\ \A i \in Range(s_posts) :
              /\ store[i].checkable_score # Absent
              /\ store[i].importance_score # Absent

\* the values the claim speaks of: integers, strings that are no numbers,
\* null, and missing keys
ClaimCovers(x) == x.kind \in {"int", "text", "null", "missing"}

\* an integer in 1..10 stays, everything else becomes 0
NormalizedAlone(x) == IF x.kind = "int" /\ 1 <= x.v /\ x.v <= 10 THEN x.v ELSE 0

\* C9 as claimed: each of the two scores is normalized on its own, whatever
\* the other score of the post is, and every score lies in {0} \cup 1..10.
C9_ScoresNormalizedAlone ==
    s_pc = "done" =>
        \A i \in Range(s_posts) :
            /\ store[i].checkable_score \in 0..10
            /\ store[i].importance_score \in 0..10
            /\ ClaimCovers(s_remote[i][1]) =>
                  store[i].checkable_score = NormalizedAlone(s_remote[i][1])
            /\ ClaimCovers(s_remote[i][2]) =>
                  store[i].importance_score = NormalizedAlone(s_remote[i][2])

(***************************************************************************)
(* Properties of _do_analyze                                               *)
(***************************************************************************)
\* C10: the ranking of _do_analyze holds the scored posts (those that pass
\* the threshold when it is on), each with final score 0.5*importance +
\* 0.3*checkability + 0.2*retweet score, in non-increasing order of final
\* score, and two posts of equal final score stand as they stood in the
\* scored input.
C10_RankingSortedAndStable ==
    (a_pc = "returned" /\ did_analyze) =>
        /\ \A i \in Range(scored) :
              store[i].final_score =
                  500 * store[i].importance_score + 300 * store[i].checkable_score
                  + (200 * store[i].retweet_score) \div 1000
        /\ Range(ranked_posts) =
              { i \in Range(scored) :
                  enable_high_reach_filter =>
                      store[i].tweet_retweet_count >= min_retweets_threshold }
        /\ \A a, b \in 1..Len(ranked_posts) :
              a < b =>
                 /\ ranked_posts[a] # ranked_posts[b]
                 /\ store[ranked_posts[a]].final_score >= store[ranked_posts[b]].final_score
                 /\ store[ranked_posts[a]].final_score = store[ranked_posts[b]].final_score
                       => PlaceIn(scored, ranked_posts[a]) < PlaceIn(scored, ranked_posts[b])

\* three posts were ranked: the third fetched came first, and the first two,
\* of equal final score, kept their order
C10_Witness ==
    /\ a_pc = "returned"
    /\ did_analyze
    /\ ranked_posts = << 3, 1, 2 >>
    /\ store[1].final_score = store[2].final_score
    /\ store[3].final_score > store[1].final_score

(***************************************************************************)
(* Properties of save_posts_to_csv and of the session                      *)
(***************************************************************************)
\* C12: save_posts_to_csv called with no posts raises, and the destination
\* path is as it was: no file is created there, and a file that was there
\* keeps its content.
C12_EmptyExportRaises ==
    [][ (x_pc = "call" /\ x_posts = << >>) =>
            /\ x_pc' = "raised"
            /\ csv_file' = csv_file ]_vars

\* the call with no posts has raised and the file of an earlier export is still there
C12_Witness ==
    /\ x_pc = "raised"
    /\ x_posts = << >>
    /\ csv_file = OldFile

\* C21: should_skip_metrics_fetch returns true exactly when remaining is
\* known and at most 5 and reset_time is known and later than the current
\* time; it changes neither RATE_LIMIT_STATE nor the clock.
C21_SkipExactlyWhenLowAndNotReset ==
    [][ skip_pc = "call" =>
          /\ skip_pc' = "returned"
          /\ skip' = ( /\ RATE_LIMIT_STATE.remaining # None
                       /\ RATE_LIMIT_STATE.remaining <= 5
                       /\ RATE_LIMIT_STATE.reset_time # None
                       /\ RATE_LIMIT_STATE.reset_time > now )
          /\ RATE_LIMIT_STATE.remaining = None => ~ skip'
          /\ RATE_LIMIT_STATE.remaining > 5 => ~ skip'
          /\ RATE_LIMIT_STATE.reset_time = None => ~ skip'
          /\ (RATE_LIMIT_STATE.reset_time # None /\ RATE_LIMIT_STATE.reset_time <= now)
                => ~ skip'
          /\ RATE_LIMIT_STATE' = RATE_LIMIT_STATE
          /\ now' = now ]_vars

\* the call returned true with exactly 5 requests left and the reset ahead
C21_Witness ==
    /\ skip_pc = "returned"
    /\ skip
    /\ RATE_LIMIT_STATE.remaining = 5
    /\ RATE_LIMIT_STATE.reset_time > now

\* the keys a post of the language-model stages carries
FieldsSet(p) ==
    {"text"}
    \cup (IF p.id # 0 THEN {"id"} ELSE {})
    \cup (IF p.tweet_retweet_count # Absent THEN {"tweet_retweet_count"} ELSE {})
    \cup (IF p.llm_fact_check_reason # "unset" THEN {"llm_fact_check_reason"} ELSE {})
    \cup (IF p.checkable_score # Absent THEN {"checkable_score"} ELSE {})
    \cup (IF p.importance_score # Absent THEN {"importance_score"} ELSE {})
    \cup (IF p.llm_scoring_reason # "unset" THEN {"llm_scoring_reason"} ELSE {})
    \cup (IF p.final_score # Absent THEN {"_final_score"} ELSE {})
    \cup (IF p.retweet_score # Absent THEN {"retweet_score"} ELSE {})

\* the keys a post of fetch_eligible_posts carries
FetchFieldsSet(p) ==
    (IF p.id # 0 THEN {"id"} ELSE {})
    \cup (IF p.public_metrics # Absent THEN {"public_metrics"} ELSE {})
    \cup (IF p.tweet_retweet_count # Absent THEN {"tweet_retweet_count"} ELSE {})
    \cup (IF p.tweet_like_count # Absent THEN {"tweet_like_count"} ELSE {})
    \cup (IF p.tweet_reply_count # Absent THEN {"tweet_reply_count"} ELSE {})
    \cup (IF p.tweet_quote_count # Absent THEN {"tweet_quote_count"} ELSE {})
    \cup (IF p.author_followers_count # Absent THEN {"author_followers_count"} ELSE {})
    \cup (IF p.metrics_hydrated # "unset" THEN {"__metrics_hydrated__"} ELSE {})
    \cup (IF p.metrics_reason # "unset" THEN {"__metrics_reason__"} ELSE {})
    \cup (IF p.reach_score # Absent THEN {"reach_score"} ELSE {})

\* C11: the threshold filter before scoring and the one after ranking are
\* under two independent toggles: a step that switches the application before
\* scoring on or off leaves the application after ranking as it was.
C11_TogglesIndependent ==
    [][ (PreScoringSwitch' # PreScoringSwitch) => (PostRankingSwitch' = PostRankingSwitch) ]_vars

\* C24: in every state a sequence of callbacks leaves the session in,
\* whether the last callback returned or raised part-way, every post of
\* ranked_posts is in filtered_posts, every post of filtered_posts is in
\* raw_posts, and did_analyze implies did_fetch.
C24_SessionListsNested ==
    a_pc \in {"idle", "returned", "raised"} =>
        /\ Range(ranked_posts) \subseteq Range(filtered_posts)
        /\ Range(filtered_posts) \subseteq Range(raw_posts)
        /\ did_analyze => did_fetch

\* C13: posts are append-only over any sequence of fetch, filter, score, rank
\* and export: but for the step at which a new fetch replaces the posts by new
\* ones, every step keeps every post and every key it had, and the steps of
\* an export leave the posts exactly as they were.
C13_FieldsAppendOnly ==
    [][ /\ (a_pc # "fetching") =>
              /\ DOMAIN store' = DOMAIN store
              /\ \A i \in DOMAIN store : FieldsSet(store[i]) \subseteq FieldsSet(store'[i])
        /\ (a_pc = "exporting" \/ a_pc' = "exporting") => store' = store ]_vars

\* a post ranked and exported by an earlier click has gone through the filter
\* and the scoring of a second analysis
C13_Witness ==
    /\ s_pc = "done"
    /\ csv_file.exists
    /\ \E i \in DOMAIN store :
          /\ store[i].final_score # Absent
          /\ store[i].checkable_score # Absent
          /\ store[i].llm_fact_check_reason # "unset"

\* the same within a call of fetch_eligible_posts: the page loop, the
\* hydration and the reach scores keep every post and every key it had
FetchKeepsFields ==
    [][ /\ Len(all_posts') >= Len(all_posts)
        /\ \A i \in 1..Len(all_posts) :
              FetchFieldsSet(all_posts[i]) \subseteq FetchFieldsSet(all_posts'[i]) ]_vars

(***************************************************************************)
(* Specifications                                                          *)
(***************************************************************************)
\* no call of fetch_eligible_posts is under way
IdleFetch ==
    /\ IdleSkip
    /\ CallState(<< "k", "k", "k", "k" >>, 1, FALSE, FALSE)
    /\ RATE_LIMIT_STATE = NoRateInfo
    /\ rl_at_call = NoRateInfo
    /\ now = 0

\* filter_posts_with_llm is not under way
IdleFilter ==
    /\ f_posts = << >>
    /\ f_pc = "idle"
    /\ f_pos = 0
    /\ kept = << >>
    /\ f_verdict = << >>
    /\ f_answer = << >>

\* score_posts_with_llm is not under way
IdleScore ==
    /\ s_posts = << >>
    /\ s_pc = "idle"
    /\ s_pos = 0
    /\ scored = << >>
    /\ s_remote = << >>

\* the session state of app.py before any click
IdleApp ==
    /\ raw_posts = << >>
    /\ filtered_posts = << >>
    /\ ranked_posts = << >>
    /\ did_analyze = FALSE
    /\ enable_high_reach_filter = FALSE
    /\ min_retweets_threshold = 25
    /\ a_pc = "idle"
    /\ did_fetch = FALSE
    /\ clicks = 0

\* save_posts_to_csv is not under way and nothing was exported yet
IdleExport ==
    /\ x_posts = << >>
    /\ x_pc = "idle"
    /\ csv_file = NoFile

\* fetch_eligible_posts: one call, from the module state an earlier call left
Init ==
    /\ InitFetch
    /\ store = << >>
    /\ anthropic_api_key = ""
    /\ IdleFilter
    /\ IdleScore
    /\ IdleApp
    /\ IdleExport

Next == NextFetch

\* fetch_eligible_posts under a search endpoint that may answer 429 for ever
NextLive ==
    \/ CallOauth
    \/ SearchRateLimited
    \/ SearchRateLimitedUncounted
    \/ SearchHttpError
    \/ SearchException
    \/ SearchPage
    \/ AfterPages
    \/ HydrateBatch
    \/ Lookup429
    \/ LookupHttpError
    \/ LookupOk
    \/ LookupException

Spec == Init /\ [][Next]_vars

\* the call keeps running while it can: every request is answered or raises
\* (timeout = 30) and every sleep ends
SpecLive == Init /\ [][NextLive]_vars /\ WF_vars(NextLive)

\* filter_posts_with_llm: one call on up to MaxPosts posts
InitFilter ==
    /\ IdleFetch
    /\ \E n \in 0..MaxPosts, rot \in 0..(Len(Texts) - 1), key \in CredValues :
          InitFilterCall(n, rot, key)
    /\ IdleScore
    /\ IdleApp
    /\ IdleExport

SpecFilter == InitFilter /\ [][NextFilter]_vars

\* score_posts_with_llm: one call on up to MaxPosts posts
InitScore ==
    /\ IdleFetch
    /\ IdleFilter
    /\ \E n \in 0..MaxPosts, rot \in 0..(Len(Texts) - 1), key \in CredValues :
          /\ store = PostsFrom(n, rot)
          /\ anthropic_api_key = key
          /\ InitScoreCall([ i \in 1..n |-> i ])
    /\ IdleApp
    /\ IdleExport

SpecScore == InitScore /\ [][NextScore]_vars

\* retweet counts of fetched posts: none, below and above the default threshold
RetweetChoices == {0, 9, 999}

\* _do_analyze: one click on "Analyze & rank" after a fetch left up to MaxRaw
\* posts in ss.raw_posts
InitAnalyze ==
    /\ IdleFetch
    /\ IdleFilter
    /\ IdleScore
    /\ \E n \in 0..MaxRaw, key \in CredValues, on \in BOOLEAN :
          /\ \E rts \in [1..n -> RetweetChoices] :
                store = [ i \in 1..n |-> LlmPost(i, Texts[((i - 1) % Len(Texts)) + 1], rts[i]) ]
          /\ anthropic_api_key = key
          /\ raw_posts = [ i \in 1..n |-> i ]
          /\ enable_high_reach_filter = on
    /\ min_retweets_threshold = 25
    /\ filtered_posts = << >>
    /\ ranked_posts = << >>
    /\ did_analyze = FALSE
    /\ did_fetch = TRUE
    /\ clicks = 1
    /\ a_pc = "clicked"
    /\ IdleExport

SpecAnalyze == InitAnalyze /\ [][NextAnalyze]_vars

\* save_posts_to_csv: one call on up to MaxPosts posts, with or without a
\* file already at the destination path
InitExport ==
    /\ IdleFetch
    /\ IdleFilter
    /\ IdleScore
    /\ IdleApp
    /\ \E n \in 0..MaxPosts, rot \in 0..(Len(Texts) - 1) :
          /\ store = PostsFrom(n, rot)
          /\ InitSaveCall([ i \in 1..n |-> i ])
    /\ anthropic_api_key = ""
    /\ csv_file \in {NoFile, OldFile}

SpecExport == InitExport /\ [][NextExport]_vars

(***************************************************************************)
(* app.py: the session, one callback at a time                             *)
(***************************************************************************)
\* what fetch_eligible_posts hands to _do_fetch: up to MaxFetched posts with
\* their retweet counts; no post at all also stands for a call that raised
\* (lines 69-71: posts = [])
FetchedPosts ==
    UNION { { [ i \in 1..n |-> LlmPost(i, Texts[i], rts[i]) ] :
                rts \in [1..n -> RetweetChoices] } : n \in 0..MaxFetched }

\* lines 174-177: the checkbox "Filter to high-retweet posts only"
ToggleHighReach ==
    /\ a_pc = "idle"
    /\ clicks < MaxClicks
    /\ clicks' = clicks + 1
    /\ enable_high_reach_filter' = ~ enable_high_reach_filter
    /\ UNCHANGED << raw_posts, filtered_posts, ranked_posts, did_analyze,
                    min_retweets_threshold, a_pc, did_fetch >>
    /\ UNCHANGED << fetchVars, store, anthropic_api_key, filterVars, scoreVars, exportVars >>

\* line 163: the button "Fetch posts"
ClickFetch ==
    /\ a_pc = "idle"
    /\ clicks < MaxClicks
    /\ clicks' = clicks + 1
    /\ a_pc' = "fetching"
    /\ UNCHANGED << raw_posts, filtered_posts, ranked_posts, did_analyze,
                    enable_high_reach_filter, min_retweets_threshold, did_fetch >>
    /\ UNCHANGED << fetchVars, store, anthropic_api_key, filterVars, scoreVars, exportVars >>

\* lines 55-77: _do_fetch once fetch_eligible_posts has returned or raised;
\* the posts are new objects and nothing refers to the old ones any more
FetchReturn ==
    /\ a_pc = "fetching"
    /\ UNCHANGED clicks
    /\ \E posts \in FetchedPosts :
          /\ store' = posts
          /\ raw_posts' = [ i \in 1..Len(posts) |-> i ]
    /\ filtered_posts' = << >>
    /\ ranked_posts' = << >>
    /\ did_fetch' = TRUE
    /\ did_analyze' = FALSE
    /\ a_pc' = "returned"
    /\ UNCHANGED << enable_high_reach_filter, min_retweets_threshold >>
    /\ UNCHANGED << fetchVars, anthropic_api_key, filterVars, scoreVars, exportVars >>

\* lines 164-165: the button "Analyze & rank", enabled once a fetch was made
ClickAnalyze ==
    /\ a_pc = "idle"
    /\ clicks < MaxClicks
    /\ clicks' = clicks + 1
    /\ did_fetch
    /\ a_pc' = "clicked"
    /\ UNCHANGED << raw_posts, filtered_posts, ranked_posts, did_analyze,
                    enable_high_reach_filter, min_retweets_threshold, did_fetch >>
    /\ UNCHANGED << fetchVars, store, anthropic_api_key, filterVars, scoreVars, exportVars >>

\* lines 166-167 and 151-155: the button "Export CSV", enabled while there
\* are ranked posts, up to the call of save_posts_to_csv
ClickExport ==
    /\ a_pc = "idle"
    /\ clicks < MaxClicks
    /\ clicks' = clicks + 1
    /\ ranked_posts # << >>
    /\ a_pc' = "exporting"
    /\ x_posts' = ranked_posts
    /\ x_pc' = "call"
    /\ UNCHANGED << raw_posts, filtered_posts, ranked_posts, did_analyze,
                    enable_high_reach_filter, min_retweets_threshold, did_fetch >>
    /\ UNCHANGED << fetchVars, store, anthropic_api_key, filterVars, scoreVars, csv_file >>

\* lines 156-158: save_posts_to_csv has returned the path
ExportReturn ==
    /\ a_pc = "exporting"
    /\ UNCHANGED clicks
    /\ x_pc = "returned"
    /\ a_pc' = "returned"
    /\ UNCHANGED << raw_posts, filtered_posts, ranked_posts, did_analyze,
                    enable_high_reach_filter, min_retweets_threshold, did_fetch >>
    /\ UNCHANGED << fetchVars, store, anthropic_api_key, filterVars, scoreVars, exportVars >>

\* the callback is over (it returned, or its exception was shown): its locals
\* are gone and the script runs again with the session state as it was left
ScriptRerun ==
    /\ a_pc \in {"returned", "raised"}
    /\ UNCHANGED clicks
    /\ a_pc' = "idle"
    /\ f_posts' = << >>
    /\ f_pc' = "idle"
    /\ f_pos' = 0
    /\ kept' = << >>
    /\ f_verdict' = << >>
    /\ f_answer' = << >>
    /\ s_posts' = << >>
    /\ s_pc' = "idle"
    /\ s_pos' = 0
    /\ scored' = << >>
    /\ s_remote' = << >>
    /\ x_posts' = << >>
    /\ x_pc' = "idle"
    /\ UNCHANGED << raw_posts, filtered_posts, ranked_posts, did_analyze,
                    enable_high_reach_filter, min_retweets_threshold, did_fetch >>
    /\ UNCHANGED << fetchVars, store, anthropic_api_key, csv_file >>

NextSession ==
    \/ ToggleHighReach
    \/ ClickFetch
    \/ FetchReturn
    \/ ClickAnalyze
    \/ AnalyzeStart
    \/ FilterCall
    \/ FilterRequestFails
    \/ FilterBatch
    \/ AnalyzeScore
    \/ ScoreCall
    \/ ScoreRequestFails
    \/ ScoreBatch
    \/ AnalyzeRaises
    \/ AnalyzeRank
    \/ ClickExport
    \/ SaveWrites
    \/ ExportReturn
    \/ ScriptRerun

\* should_skip_metrics_fetch: one call, whatever RATE_LIMIT_STATE holds
InitSkip ==
    /\ CallState(<< "k", "k", "k", "k" >>, 1, FALSE, FALSE)
    /\ RATE_LIMIT_STATE \in SkipRateStates
    /\ rl_at_call = RATE_LIMIT_STATE
    /\ now \in 0..SkipClock
    /\ skip_pc = "call"
    /\ skip = FALSE
    /\ store = << >>
    /\ anthropic_api_key = ""
    /\ IdleFilter
    /\ IdleScore
    /\ IdleApp
    /\ IdleExport

SpecSkip == InitSkip /\ [][NextSkip]_vars

\* a session of app.py: the buttons and the checkbox in any order, from the
\* defaults of lines 42-52
InitSession ==
    /\ IdleFetch
    /\ store = << >>
    /\ anthropic_api_key \in CredValues
    /\ IdleFilter
    /\ IdleScore
    /\ IdleApp
    /\ IdleExport

SpecSession == InitSession /\ [][NextSession]_vars

====
